---- MODULE Spec2Model ----
(***************************************************************************)
(* DocChat: notebooks/walkthrough.ipynb as a state machine.                *)
(*                                                                         *)
(* The notebook is nine code cells that a kernel executes top to bottom    *)
(* (recorded execution_count 1..9).  The state is the kernel's namespace   *)
(* (documents, vectorstore, docs, chatbot, chat_history, result, ...), the *)
(* process environment, the captured stderr and the file system the load   *)
(* cell reads.  One action models one whole cell.                          *)
(*                                                                         *)
(* Text is modelled by its structure with respect to the splitter's        *)
(* separator "\n\n": a text is the sequence of the pieces that lie between *)
(* separators, and a piece is [lead, body, trail]: the number of           *)
(* whitespace characters at its start, the number of characters from its   *)
(* first to its last non-whitespace character, and the number of           *)
(* whitespace characters at its end.  Lengths are the real ones, so        *)
(* chunk_size = 1000 and chunk_overlap = 40 are the notebook's values.     *)
(***************************************************************************)
EXTENDS Integers, Sequences, FiniteSets

(* ------------------------------------------------------------------ *)
(* Bounds of the model                                                *)
(* ------------------------------------------------------------------ *)
MaxPieces == 3
MaxTurns == 3

(* ------------------------------------------------------------------ *)
(* Program constants                                                  *)
(* ------------------------------------------------------------------ *)
chunk_size == 1000
chunk_overlap == 40
\* len("\n\n"), the separator CharacterTextSplitter splits on
separator_len == 2
\* similarity_search's number of results when none is given
search_k == 4
\* search_kwargs={"k":2}
retriever_k == 2

ImportCell == 1
KeyCell == 2
LoadCell == 3
SplitCell == 4
StoreCell == 5
SearchCell == 6
PrintCell == 7
ChainCell == 8
ChatCell == 9

Cells == ImportCell..ChatCell

(* ------------------------------------------------------------------ *)
(* Text                                                               *)
(* ------------------------------------------------------------------ *)
P(l, b, t) == [lead |-> l, body |-> b, trail |-> t]

PLen(p) == p.lead + p.body + p.trail

\* the pieces the model draws texts from: an empty piece (two separators
\* in a row), a lone whitespace character, a piece shorter than the
\* overlap, a piece that starts with whitespace and fills a chunk together
\* with the short one (30 + 2 + 968 = 1000), a piece longer than chunk_size
PieceKinds ==
    { P(0, 0, 0), P(1, 0, 0), P(0, 30, 0), P(1, 967, 0), P(0, 1200, 0) }

RECURSIVE SumLen(_)
SumLen(text) ==
    IF text = <<>> THEN 0 ELSE PLen(Head(text)) + SumLen(Tail(text))

\* len(page_content)
TextLen(text) ==
    IF text = <<>> THEN 0 ELSE SumLen(text) + separator_len * (Len(text) - 1)

RECURSIVE LStrip(_)
LStrip(text) ==
    IF text = <<>> THEN <<>>
    ELSE IF Head(text).body = 0 THEN LStrip(Tail(text))
    ELSE <<[Head(text) EXCEPT !.lead = 0]>> \o Tail(text)

RECURSIVE RStrip(_)
RStrip(text) ==
    IF text = <<>> THEN <<>>
    ELSE IF text[Len(text)].body = 0 THEN RStrip(SubSeq(text, 1, Len(text) - 1))
    ELSE SubSeq(text, 1, Len(text) - 1) \o <<[text[Len(text)] EXCEPT !.trail = 0]>>

\* str.strip(): <<>> is the empty string
Strip(text) == RStrip(LStrip(text))

(* ------------------------------------------------------------------ *)
(* CharacterTextSplitter(chunk_size=1000, chunk_overlap=40)            *)
(* ------------------------------------------------------------------ *)
\* the pieces of `text` at the positions `cur`
Pieces(text, cur) == [k \in 1..Len(cur) |-> text[cur[k]]]

\* the splits that are kept: the non-empty strings between separators,
\* named by their position in the text
RECURSIVE NonEmptyFrom(_, _)
NonEmptyFrom(text, i) ==
    IF i > Len(text) THEN <<>>
    ELSE (IF PLen(text[i]) > 0 THEN <<i>> ELSE <<>>) \o NonEmptyFrom(text, i + 1)

\* mutant: the first split is lost
SplitOnSeparatorSkipsFirst(text) == NonEmptyFrom(text, 2)

SplitOnSeparator(text) == NonEmptyFrom(text, 1)

\* _join_docs: the joined and stripped text and the positions it was built from
JoinDocs(text, cur) ==
    [page_content |-> Strip(Pieces(text, cur)), span |-> cur]

Emit(text, docs, cur) ==
    IF JoinDocs(text, cur).page_content = <<>> THEN docs
    ELSE Append(docs, JoinDocs(text, cur))

SepIf(cond) == IF cond THEN separator_len ELSE 0

\* mutant: the loop stops as soon as the overlap is small enough, whether or
\* not the next piece fits
KeepPoppingOverlapOnly(cur, total, len) == total > chunk_overlap

\* the guard of the loop that drops pieces from the front of current_doc
KeepPopping(cur, total, len) ==
    \/ total > chunk_overlap
    \/ /\ total + len + SepIf(Len(cur) > 0) > chunk_size
       /\ total > 0

\* mutant: nothing is dropped from the front of current_doc
PopFrontKeepsAll(text, cur, total, len) == [cur |-> cur, total |-> total]

RECURSIVE PopFront(_, _, _, _)
PopFront(text, cur, total, len) ==
    IF cur # <<>> /\ KeepPopping(cur, total, len)
    THEN PopFront(text, Tail(cur),
                  total - (PLen(text[cur[1]]) + SepIf(Len(cur) > 1)), len)
    ELSE [cur |-> cur, total |-> total]

\* the guard that closes the current chunk before piece of length len is added
Overflows(cur, total, len) ==
    total + len + SepIf(Len(cur) > 0) > chunk_size

\* one iteration of _merge_splits' loop, for the piece at position i
MergeStep(text, st, i) ==
    LET len == PLen(text[i])
        over == Overflows(st.cur, st.total, len)
        warned == IF over /\ st.total > chunk_size
                  THEN Append(st.warnings, st.total) ELSE st.warnings
        docs == IF over /\ st.cur # <<>> THEN Emit(text, st.docs, st.cur) ELSE st.docs
        kept == IF over /\ st.cur # <<>>
                THEN PopFront(text, st.cur, st.total, len)
                ELSE [cur |-> st.cur, total |-> st.total]
        cur == Append(kept.cur, i)
    IN  [docs |-> docs, cur |-> cur,
         total |-> kept.total + len + SepIf(Len(cur) > 1),
         warnings |-> warned]

RECURSIVE MergeLoop(_, _, _)
MergeLoop(text, splits, st) ==
    IF splits = <<>> THEN st
    ELSE MergeLoop(text, Tail(splits), MergeStep(text, st, Head(splits)))

\* _merge_splits: the chunks of one text and the warnings logged on the way
MergeSplits(text) ==
    LET st == MergeLoop(text, SplitOnSeparator(text),
                        [docs |-> <<>>, cur |-> <<>>, total |-> 0, warnings |-> <<>>])
    IN  [docs |-> Emit(text, st.docs, st.cur), warnings |-> st.warnings]


\* split_documents: every chunk of every document, in order, each carrying
\* its document's metadata; span is the chunk's provenance in the loaded text
ChunksOf(doc) ==
    LET m == MergeSplits(doc.page_content).docs
    IN  [k \in 1..Len(m) |->
            [page_content |-> m[k].page_content,
             source |-> doc.source,
             span |-> [j \in 1..Len(m[k].span) |-> doc.span[m[k].span[j]]]]]

RECURSIVE SplitDocuments(_)
SplitDocuments(ds) ==
    IF ds = <<>> THEN [docs |-> <<>>, warnings |-> <<>>]
    ELSE LET rest == SplitDocuments(Tail(ds))
         IN  [docs |-> ChunksOf(Head(ds)) \o rest.docs,
              warnings |-> MergeSplits(Head(ds).page_content).warnings \o rest.warnings]

(* ------------------------------------------------------------------ *)
(* The file system and DirectoryLoader('../documents/', glob="**/*.pdf") *)
(* ------------------------------------------------------------------ *)
Name(s) == [dot |-> FALSE, s |-> s]
DotName(s) == [dot |-> TRUE, s |-> s]
File(root, dirs, name, ext) == [root |-> root, dirs |-> dirs, name |-> name, ext |-> ext]

DocumentsDir == "../documents/"

TopPdf == File(DocumentsDir, <<>>, Name("a"), "pdf")
SubPdf == File(DocumentsDir, <<Name("sub")>>, Name("b"), "pdf")
NotesTxt == File(DocumentsDir, <<>>, Name("notes"), "txt")
OutsidePdf == File("../other/", <<>>, Name("c"), "pdf")
HiddenPdf == File(DocumentsDir, <<DotName("cache")>>, Name("d"), "pdf")

\* the files that the loader must leave out
Decoys == { NotesTxt, OutsidePdf, HiddenPdf }

\* the sets of files the model starts from
FileSets == { pdfs \cup others : pdfs \in SUBSET { TopPdf, SubPdf }, others \in { {}, Decoys } }

Texts == UNION { [1..n -> PieceKinds] : n \in 1..MaxPieces }

\* what the files other than TopPdf hold
FixedText(f) ==
    IF f = SubPdf THEN << P(0, 30, 0), P(0, 30, 0) >> ELSE << P(0, 600, 0) >>

\* mutant: the suffix is not looked at
GlobMatchesAnySuffix(f) == f.root = DocumentsDir

\* Path(path).glob("**/*.pdf"): any depth below the directory, suffix .pdf
GlobMatches(f) == f.root = DocumentsDir /\ f.ext = "pdf"

\* _is_visible: no component of the path relative to the directory starts
\* with a dot (load_hidden is left at False)
IsVisible(f) == ~f.name.dot /\ \A i \in 1..Len(f.dirs) : ~f.dirs[i].dot

Loadable(files) == { f \in files : GlobMatches(f) /\ IsVisible(f) }

\* one Document per file
LoadFile(files, f) ==
    [page_content |-> files[f], source |-> f,
     span |-> [k \in 1..Len(files[f]) |-> k]]

\* the orders a directory walk may list a set of files in
Orders(S) ==
    { q \in [1..Cardinality(S) -> S] : \A i, j \in 1..Cardinality(S) : q[i] = q[j] => i = j }

RECURSIVE SumChars(_)
SumChars(ds) ==
    IF ds = <<>> THEN 0 ELSE TextLen(Head(ds).page_content) + SumChars(Tail(ds))

(* ------------------------------------------------------------------ *)
(* The vector store and the retriever                                 *)
(* ------------------------------------------------------------------ *)
Min(a, b) == IF a < b THEN a ELSE b

\* Chroma.from_documents: one entry per document handed in
FromDocuments(ds) == ds

\* mutant: the retriever's k is not passed on
TopKIgnoresK(store, k, first) ==
    [i \in 1..Min(search_k, Len(store)) |-> store[((first + i - 2) % Len(store)) + 1]]

\* the k entries nearest to a query; the embedding is opaque, so the ranking
\* is an input: the entry at `first` is the nearest, the next ones follow
\* it in the store's order
TopK(store, k, first) ==
    [i \in 1..Min(k, Len(store)) |-> store[((first + i - 2) % Len(store)) + 1]]

(* ------------------------------------------------------------------ *)
(* The kernel                                                         *)
(* ------------------------------------------------------------------ *)
VARIABLES
    pc,              \* the cell the run executes next; Done when all have run
    raised,          \* the cell whose uncaught exception stopped the run, 0 if none
    execution_count, \* the kernel's execution counter
    executed,        \* the cells executed so far, in order
    dir_exists,      \* whether '../documents/' exists
    fs,              \* the files on disk and their text
    environ,         \* os.environ, restricted to OPENAI_API_KEY
    documents, num_docs, num_chars,
    stderr,          \* the sizes the splitter's warnings name
    vectorstore,     \* the entries of the Chroma collection
    docs,            \* the result of the similarity search
    chatbot,         \* the retrieval chain: its retriever's search_kwargs
    chat_history, result,
    binder,          \* for each name, the cell that bound it last (0: unbound)
    consumed,        \* for each cell, the cells whose results it read
    before,          \* chat_history as the latest chat turn found it
    handed,          \* the chat_history the latest chain call was given
    retrieved,       \* the entries the latest chain call retrieved
    turns,           \* how often the chat cell was executed
    asked            \* the turns the chain answered, in the order asked

vars == << pc, raised, execution_count, executed, dir_exists, fs, environ,
           documents, num_docs, num_chars, stderr, vectorstore, docs, chatbot,
           chat_history, result, binder, consumed, before, handed, retrieved,
           turns, asked >>

Done == ChatCell + 1

ApiKey == "OPENAI_API_KEY"
Names == { "imports", ApiKey, "documents", "vectorstore", "docs", "chatbot",
           "chat_history", "result" }

\* what getpass may return: nothing, a key the service accepts, one it rejects
KeyInputs == { "", "sk-valid", "sk-invalid" }
Answers == { "answer-1", "answer-2" }
Query == "What makes Retentive Networks good?"

\* the names of earlier cells each cell reads
Reads(cell) ==
    CASE cell = ImportCell -> {}
      [] cell = KeyCell    -> { "imports" }
      [] cell = LoadCell   -> { "imports" }
      [] cell = SplitCell  -> { "imports", "documents" }
      [] cell = StoreCell  -> { "documents", ApiKey }
      [] cell = SearchCell -> { "vectorstore" }
      [] cell = PrintCell  -> { "docs" }
      [] cell = ChainCell  -> { "imports", "vectorstore", ApiKey }
      [] cell = ChatCell   -> { "chatbot" }

Init ==
    /\ pc = ImportCell
    /\ raised = 0
    /\ execution_count = 0
    /\ executed = <<>>
    /\ \E present \in FileSets, t \in Texts :
          fs = [f \in present |-> IF f = TopPdf THEN t ELSE FixedText(f)]
    /\ dir_exists \in BOOLEAN
    /\ (\E f \in DOMAIN fs : f.root = DocumentsDir) => dir_exists
    /\ environ = [n \in {} |-> ""]
    /\ documents = <<>>
    /\ num_docs = 0
    /\ num_chars = 0
    /\ stderr = <<>>
    /\ vectorstore = <<>>
    /\ docs = <<>>
    /\ chatbot = [k |-> 0]
    /\ chat_history = <<>>
    /\ result = ""
    /\ binder = [n \in Names |-> 0]
    /\ consumed = [c \in Cells |-> {}]
    /\ before = <<>>
    /\ handed = <<>>
    /\ retrieved = <<>>
    /\ turns = 0
    /\ asked = <<>>

\* mutant: the split cell is passed over
NextCellSkipsSplit(cell) == IF cell = LoadCell THEN StoreCell ELSE cell + 1

\* mutant: the key cell is passed over
NextCellSkipsKey(cell) == IF cell = ImportCell THEN LoadCell ELSE cell + 1

\* Run All: the kernel takes the cells top to bottom
NextCell(cell) == cell + 1

Running(cell) == pc = cell /\ raised = 0

\* a name of an earlier cell that is not bound: the cell ends in a NameError
Unbound(cell) == \E n \in Reads(cell) : binder[n] = 0

\* the bookkeeping of every execution of a cell, whatever its outcome
Executes(cell) ==
    /\ execution_count' = execution_count + 1
    /\ executed' = Append(executed, cell)
    /\ consumed' = [consumed EXCEPT ![cell] = { binder[n] : n \in Reads(cell) } \ {0}]

\* the cell ran to its end: the run goes on with the next cell
Completes(cell) ==
    /\ Executes(cell)
    /\ pc' = NextCell(cell)
    /\ raised' = 0

\* mutant: the exception is swallowed and the run goes on
RaisesAndGoesOn(cell) ==
    /\ Executes(cell)
    /\ pc' = cell + 1
    /\ raised' = 0

\* an exception left the cell: nothing catches it and the run stops
Raises(cell) ==
    /\ Executes(cell)
    /\ pc' = pc
    /\ raised' = cell

Bind(S, cell) == [n \in Names |-> IF n \in S THEN cell ELSE binder[n]]

KeySet == ApiKey \in DOMAIN environ
KeyValue == IF KeySet THEN environ[ApiKey] ELSE ""

(* ---- cell 1: the imports ---------------------------------------- *)
RunImport ==
    /\ Running(ImportCell)
    /\ Completes(ImportCell)
    /\ binder' = Bind({"imports"}, ImportCell)
    /\ UNCHANGED << dir_exists, fs, environ, documents, num_docs, num_chars,
                    stderr, vectorstore, docs, chatbot, chat_history, result,
                    before, handed, retrieved, turns, asked >>

(* ---- cell 2: os.environ['OPENAI_API_KEY'] = getpass.getpass(...) -- *)
KeyEntered ==
    /\ Running(KeyCell) /\ ~Unbound(KeyCell)
    /\ \E key \in KeyInputs : environ' = [n \in {ApiKey} |-> key]
    /\ binder' = Bind({ApiKey}, KeyCell)
    /\ Completes(KeyCell)
    /\ UNCHANGED << dir_exists, fs, documents, num_docs, num_chars,
                    stderr, vectorstore, docs, chatbot, chat_history, result,
                    before, handed, retrieved, turns, asked >>

\* getpass has no terminal to read from (or a name is unbound)
KeyRaises ==
    /\ Running(KeyCell)
    /\ Raises(KeyCell)
    /\ UNCHANGED << dir_exists, fs, environ, documents, num_docs, num_chars,
                    stderr, vectorstore, docs, chatbot, chat_history, result,
                    binder, before, handed, retrieved, turns, asked >>

RunKey == KeyEntered \/ KeyRaises

(* ---- cell 3: the load ------------------------------------------- *)
Loaded ==
    /\ Running(LoadCell) /\ ~Unbound(LoadCell)
    /\ dir_exists
    /\ \E order \in Orders(Loadable(DOMAIN fs)) :
          documents' = <<>> \o [i \in 1..Len(order) |-> LoadFile(fs, order[i])]
    /\ num_docs' = Len(documents')
    /\ num_chars' = SumChars(documents')
    /\ binder' = Bind({"documents"}, LoadCell)
    /\ Completes(LoadCell)
    /\ UNCHANGED << dir_exists, fs, environ, stderr, vectorstore, docs, chatbot,
                    chat_history, result, before, handed, retrieved, turns, asked >>

\* pdf_loader.load() raises FileNotFoundError; documents = [] has run by then
LoadRaises ==
    /\ Running(LoadCell)
    /\ ~dir_exists \/ Unbound(LoadCell)
    /\ documents' = IF Unbound(LoadCell) THEN documents ELSE <<>>
    /\ binder' = IF Unbound(LoadCell) THEN binder ELSE Bind({"documents"}, LoadCell)
    /\ Raises(LoadCell)
    /\ UNCHANGED << dir_exists, fs, environ, num_docs, num_chars, stderr,
                    vectorstore, docs, chatbot, chat_history, result, before,
                    handed, retrieved, turns, asked >>

RunLoad == Loaded \/ LoadRaises

(* ---- cell 4: the split ------------------------------------------ *)
\* split_documents raises nothing: an oversized chunk is logged and kept
RunSplit ==
    /\ Running(SplitCell)
    /\ IF Unbound(SplitCell)
       THEN /\ Raises(SplitCell)
            /\ UNCHANGED << documents, stderr, binder >>
       ELSE /\ documents' = SplitDocuments(documents).docs
            /\ stderr' = stderr \o SplitDocuments(documents).warnings
            /\ binder' = Bind({"documents"}, SplitCell)
            /\ Completes(SplitCell)
    /\ UNCHANGED << dir_exists, fs, environ, num_docs, num_chars, vectorstore,
                    docs, chatbot, chat_history, result, before, handed,
                    retrieved, turns, asked >>

(* ---- cell 5: the vector store ----------------------------------- *)
\* the key is there and the embedding service answers; what Chroma does
\* with no document at all is not fixed here: it may build an empty store
\* or raise (StoreRaises)
StoreBuilt ==
    /\ Running(StoreCell) /\ ~Unbound(StoreCell)
    /\ KeyValue = "sk-valid"
    /\ vectorstore' = FromDocuments(documents)
    /\ binder' = Bind({"vectorstore"}, StoreCell)
    /\ Completes(StoreCell)
    /\ UNCHANGED << dir_exists, fs, environ, documents, num_docs, num_chars,
                    stderr, docs, chatbot, chat_history, result, before,
                    handed, retrieved, turns, asked >>

\* no key, a rejected key, no network, nothing to index
StoreRaises ==
    /\ Running(StoreCell)
    /\ Raises(StoreCell)
    /\ UNCHANGED << dir_exists, fs, environ, documents, num_docs, num_chars,
                    stderr, vectorstore, docs, chatbot, chat_history, result,
                    binder, before, handed, retrieved, turns, asked >>

RunStore == StoreBuilt \/ StoreRaises

(* ---- cell 6: the similarity search ------------------------------ *)
SearchAnswered ==
    /\ Running(SearchCell) /\ ~Unbound(SearchCell)
    /\ \E first \in 1..(IF vectorstore = <<>> THEN 1 ELSE Len(vectorstore)) :
          docs' = TopK(vectorstore, search_k, first)
    /\ binder' = Bind({"docs"}, SearchCell)
    /\ Completes(SearchCell)
    /\ UNCHANGED << dir_exists, fs, environ, documents, num_docs, num_chars,
                    stderr, vectorstore, chatbot, chat_history, result, before,
                    handed, retrieved, turns, asked >>

SearchRaises ==
    /\ Running(SearchCell)
    /\ Raises(SearchCell)
    /\ UNCHANGED << dir_exists, fs, environ, documents, num_docs, num_chars,
                    stderr, vectorstore, docs, chatbot, chat_history, result,
                    binder, before, handed, retrieved, turns, asked >>

RunSearch == SearchAnswered \/ SearchRaises

(* ---- cell 7: print(docs[0].page_content) ------------------------ *)
\* docs[0] of an empty list is an IndexError
RunPrint ==
    /\ Running(PrintCell)
    /\ IF Unbound(PrintCell) \/ docs = <<>>
       THEN Raises(PrintCell)
       ELSE Completes(PrintCell)
    /\ UNCHANGED << dir_exists, fs, environ, documents, num_docs, num_chars,
                    stderr, vectorstore, docs, chatbot, chat_history, result,
                    binder, before, handed, retrieved, turns, asked >>

(* ---- cell 8: the retriever and the chain ------------------------ *)
RunChain ==
    /\ Running(ChainCell)
    /\ IF Unbound(ChainCell) \/ KeyValue = ""
       THEN /\ Raises(ChainCell)
            /\ UNCHANGED << chatbot, binder >>
       ELSE /\ chatbot' = [k |-> retriever_k]
            /\ binder' = Bind({"chatbot"}, ChainCell)
            /\ Completes(ChainCell)
    /\ UNCHANGED << dir_exists, fs, environ, documents, num_docs, num_chars,
                    stderr, vectorstore, docs, chat_history, result, before,
                    handed, retrieved, turns, asked >>

(* ---- cell 9: the chat turn -------------------------------------- *)
\* chat_history = []: what the name holds when the chain is called
HistoryAtCall(history) == <<>>

\* the chain answered: the pair is appended to the list that was handed in
TurnAnswered ==
    /\ ~Unbound(ChatCell)
    /\ before' = chat_history
    /\ handed' = HistoryAtCall(chat_history)
    /\ \E first \in 1..(IF vectorstore = <<>> THEN 1 ELSE Len(vectorstore)),
          answer \in Answers :
          /\ retrieved' = TopK(vectorstore, chatbot.k, first)
          /\ result' = answer
          /\ chat_history' = Append(HistoryAtCall(chat_history), << Query, answer >>)
          /\ asked' = Append(asked, << Query, answer >>)
    /\ binder' = Bind({"chat_history", "result"}, ChatCell)
    /\ turns' = turns + 1
    /\ Completes(ChatCell)
    /\ UNCHANGED << dir_exists, fs, environ, documents, num_docs, num_chars,
                    stderr, vectorstore, docs, chatbot >>

\* the chain call raised: lines 296 and 297 have run, line 299 has not
TurnRaises ==
    /\ before' = chat_history
    /\ handed' = IF Unbound(ChatCell) THEN handed ELSE HistoryAtCall(chat_history)
    /\ chat_history' = HistoryAtCall(chat_history)
    /\ binder' = Bind({"chat_history"}, ChatCell)
    /\ turns' = turns + 1
    /\ Raises(ChatCell)
    /\ UNCHANGED << dir_exists, fs, environ, documents, num_docs, num_chars,
                    stderr, vectorstore, docs, chatbot, result, retrieved, asked >>

ChatAnswered == Running(ChatCell) /\ TurnAnswered
ChatRaises == Running(ChatCell) /\ TurnRaises

RunChat == ChatAnswered \/ ChatRaises

(* ---- Run All ---------------------------------------------------- *)
Next ==
    \/ RunImport
    \/ RunKey
    \/ RunLoad
    \/ RunSplit
    \/ RunStore
    \/ RunSearch
    \/ RunPrint
    \/ RunChain
    \/ RunChat

Spec == Init /\ [][Next]_vars

(* ---- a session: the run, then the chat cell executed again ------- *)
\* the run is over, by its last cell or by an exception in it, and the
\* kernel still holds the chain
Idle ==
    /\ turns >= 1
    /\ turns < MaxTurns

AgainAnswered == Idle /\ TurnAnswered
AgainRaises == Idle /\ TurnRaises

SessionNext == Next \/ AgainAnswered \/ AgainRaises

SessionSpec == Init /\ [][SessionNext]_vars

(* ------------------------------------------------------------------ *)
(* What the claims speak of                                           *)
(* ------------------------------------------------------------------ *)
Range(q) == { q[i] : i \in DOMAIN q }

Last(q) == q[Len(q)]

\* the cell was executed and ran to its end
Completed(cell) == cell \in Range(executed) /\ raised # cell

\* `documents` holds the output of the split cell
SplitHasRun == binder["documents"] = SplitCell

ChunkLen(c) == TextLen(c.page_content)

\* the text of the file a chunk was cut from
SourceText(c) == fs[c.source]

Oversized == \E i \in DOMAIN documents : ChunkLen(documents[i]) > chunk_size

\* the loaded documents, for one order of the directory walk
LoadedIn(order) == [i \in 1..Len(order) |-> LoadFile(fs, order[i])]

\* the chunks of file f, in the order the split produced them
ChunkIndexes(f) == { i \in DOMAIN documents : documents[i].source = f }

\* positions, within the span of chunk c, of its first and last piece that
\* holds a non-whitespace character: what strip() leaves starts at the one
\* and ends at the other
BodyPositions(c) == { k \in DOMAIN c.span : SourceText(c)[c.span[k]].body > 0 }
FirstBody(c) == CHOOSE k \in BodyPositions(c) : \A j \in BodyPositions(c) : k <= j
LastBody(c) == CHOOSE k \in BodyPositions(c) : \A j \in BodyPositions(c) : k >= j

\* chunk c holds: the characters of piece i from its first to its last
\* non-whitespace one; its leading whitespace; its trailing whitespace; the
\* separator between pieces i and i + 1
HoldsBody(c, i) == \E k \in DOMAIN c.span : c.span[k] = i
HoldsLead(c, i) ==
    \E k \in DOMAIN c.span : c.span[k] = i /\ FirstBody(c) < k /\ k <= LastBody(c)
HoldsTrail(c, i) ==
    \E k \in DOMAIN c.span : c.span[k] = i /\ FirstBody(c) <= k /\ k < LastBody(c)
HoldsSeparator(c, i) ==
    \E k \in DOMAIN c.span :
        /\ c.span[k] = i /\ k < Len(c.span) /\ c.span[k + 1] = i + 1
        /\ FirstBody(c) <= k /\ k + 1 <= LastBody(c)

InSomeChunk(f, Holds(_, _), i) == \E n \in ChunkIndexes(f) : Holds(documents[n], i)

\* every character position of file f lies inside a chunk
NoGaps(f) ==
    \A i \in DOMAIN fs[f] :
        /\ fs[f][i].body > 0 => InSomeChunk(f, HoldsBody, i)
        /\ fs[f][i].lead > 0 => InSomeChunk(f, HoldsLead, i)
        /\ fs[f][i].trail > 0 => InSomeChunk(f, HoldsTrail, i)
        /\ i < Len(fs[f]) => InSomeChunk(f, HoldsSeparator, i)

\* the pieces of a chunk are next to each other in its file
Contiguous(c) == \A k \in 1..(Len(c.span) - 1) : c.span[k + 1] = c.span[k] + 1

\* the pieces the chunks a and b both hold, as positions in the file
SharedPieces(a, b) == Range(a.span) \cap Range(b.span)

\* the longest end of a that is a start of b
SharedCount(a, b) == Cardinality(SharedPieces(a, b))
SharedSpan(a, b) == SubSeq(b.span, 1, SharedCount(a, b))
SharedLen(a, b) == TextLen(Pieces(SourceText(b), SharedSpan(a, b)))

\* two chunks of one file that follow each other in `documents`
Consecutive(i) ==
    /\ i \in DOMAIN documents /\ i + 1 \in DOMAIN documents
    /\ documents[i].source = documents[i + 1].source

(* ------------------------------------------------------------------ *)
(* C1                                                                 *)
(* ------------------------------------------------------------------ *)
RunAllOrder == [c \in Cells |-> c]

\* the steps the claim lists, in its order
ListedSteps == << KeyCell, LoadCell, SplitCell, StoreCell, SearchCell, ChainCell, ChatCell >>

\* the cells whose results each cell reads
Producers(cell) ==
    CASE cell = ImportCell -> {}
      [] cell = KeyCell    -> { ImportCell }
      [] cell = LoadCell   -> { ImportCell }
      [] cell = SplitCell  -> { ImportCell, LoadCell }
      [] cell = StoreCell  -> { SplitCell, KeyCell }
      [] cell = SearchCell -> { StoreCell }
      [] cell = PrintCell  -> { SearchCell }
      [] cell = ChainCell  -> { ImportCell, StoreCell, KeyCell }
      [] cell = ChatCell   -> { ChainCell }

\* the run executes a prefix of the cells, top to bottom, each once, the
\* next one only after the one before has completed
InFixedOrder ==
    /\ executed = SubSeq(RunAllOrder, 1, Len(executed))
    /\ execution_count = Len(executed)
    /\ pc = IF raised = 0 THEN Len(executed) + 1 ELSE Len(executed)
    /\ raised # 0 => raised = Last(executed)

\* C1 as stated: the steps run in the fixed order, each once, and each
\* listed step consumes the result of the listed step before it.
C1_EachStepConsumesPrevious ==
    /\ InFixedOrder
    /\ \A i \in 2..Len(ListedSteps) :
          Completed(ListedSteps[i]) => ListedSteps[i - 1] \in consumed[ListedSteps[i]]

\* C1 as amended: the steps run in the fixed order, each once, each only
\* after the one before has completed, and each consumes only results of
\* steps completed before it: split <- load, store <- split and the key,
\* search <- store, chain <- store and the key, chat <- chain; the load
\* consumes no result of the key step and the chain none of the search.
C1_FixedOrderAndDataflow ==
    /\ InFixedOrder
    /\ \A c \in Cells :
          /\ c \in Range(executed) => consumed[c] = Producers(c)
          /\ c \notin Range(executed) => consumed[c] = {}
          /\ \A p \in consumed[c] : p < c /\ Completed(p)

C1_Witness == pc = Done /\ raised = 0 /\ Len(executed) = ChatCell

(* ------------------------------------------------------------------ *)
(* C2                                                                 *)
(* ------------------------------------------------------------------ *)
NoLoadableFile == Loadable(DOMAIN fs) = {}

\* C2 as stated: each listed failure ends with an uncaught exception that
\* stops the run at the step where it occurs: a missing API key at the
\* vector-store build, an oversized chunk at the split; with an empty
\* document directory the run ends in an exception and does not complete.
C2_EveryListedFailureRaises ==
    /\ raised # 0 => pc = raised /\ Last(executed) = raised
    /\ (StoreCell \in Range(executed) /\ KeyValue = "") => raised = StoreCell
    /\ (LoadCell \in Range(executed) /\ NoLoadableFile) => pc # Done
    /\ (SplitCell \in Range(executed) /\ Oversized) => raised = SplitCell

C2_Step ==
    \* nothing runs after an exception: no later step, no retry, no recovery
    /\ raised = 0
    \* an exception stops the run at the cell it left
    /\ raised' # 0 => raised' = pc /\ pc' = pc /\ executed' = Append(executed, pc)
    /\ raised' = 0 => pc' = pc + 1
    \* no key or a rejected key: the vector-store build raises
    /\ (pc = StoreCell /\ KeyValue # "sk-valid") => raised' = StoreCell
    \* the load raises when the directory is missing, not when it is empty
    /\ pc = LoadCell => (raised' = LoadCell <=> ~dir_exists)
    /\ (pc = LoadCell /\ dir_exists /\ NoLoadableFile) => documents' = <<>>
    \* the split raises nothing, oversized chunk or not
    /\ pc = SplitCell => raised' = 0
    \* with nothing loaded the run gets no further than print(docs[0])
    /\ (pc = PrintCell /\ docs = <<>>) => raised' = PrintCell
    /\ NoLoadableFile => pc' <= PrintCell

\* C2 as amended: no failure is handled locally: whenever a step raises
\* (no or a rejected API key at the vector-store build, a missing
\* directory at the load, a network failure), the exception is uncaught,
\* the run stops there, no later step is executed and nothing is retried.
\* An oversized chunk raises nothing (the split only warns and the run
\* goes on); an empty directory does not fail the load (it yields an empty
\* list) and the run then stops no later than print(docs[0]).
C2_UncaughtExceptionStopsRun == [][C2_Step]_vars

C2_Witness == raised = SearchCell /\ Oversized /\ stderr # <<>>

(* ------------------------------------------------------------------ *)
(* C3                                                                 *)
(* ------------------------------------------------------------------ *)
\* C3: after the split every chunk is at most chunk_size = 1000 long,
\* except a chunk that is one single piece (the text between two
\* separators) which is itself longer; no chunk of two or more pieces
\* exceeds 1000.
C3_ChunkWithinSize ==
    SplitHasRun =>
        \A i \in DOMAIN documents :
            \/ ChunkLen(documents[i]) <= 1000
            \/ /\ Len(documents[i].span) = 1
               /\ PLen(SourceText(documents[i])[documents[i].span[1]]) > 1000

C3_Witness ==
    /\ SplitHasRun
    /\ \E i \in DOMAIN documents :
          ChunkLen(documents[i]) > 1000 /\ Len(documents[i].span) = 1
    /\ \E i \in DOMAIN documents :
          ChunkLen(documents[i]) = 1000 /\ Len(documents[i].span) = 2

(* ------------------------------------------------------------------ *)
(* C4                                                                 *)
(* ------------------------------------------------------------------ *)
\* C4 as stated: the chunks cover every character position of every
\* loaded document.
C4_NoGaps ==
    SplitHasRun => \A f \in Loadable(DOMAIN fs) : NoGaps(f)

\* C4 as amended: every character of every loaded document that is neither
\* part of a separator nor whitespace at the start or end of a piece lies
\* inside at least one chunk of that document.
C4_TextCovered ==
    SplitHasRun =>
        \A f \in Loadable(DOMAIN fs) :
            \A i \in DOMAIN fs[f] :
                fs[f][i].body > 0 => InSomeChunk(f, HoldsBody, i)

C4_Witness ==
    /\ SplitHasRun
    /\ \E f \in Loadable(DOMAIN fs) :
          /\ Cardinality(ChunkIndexes(f)) >= 2
          /\ ~NoGaps(f)
          /\ \A i \in DOMAIN fs[f] : fs[f][i].body > 0

(* ------------------------------------------------------------------ *)
(* C5                                                                 *)
(* ------------------------------------------------------------------ *)
\* C5: the chat history accumulates the turns: after k answered chat turns
\* chat_history holds those k (query, answer) pairs in the order they were
\* asked, none removed, replaced or reordered.
C5_HistoryHoldsEveryTurn == chat_history = asked

(* ------------------------------------------------------------------ *)
(* C6                                                                 *)
(* ------------------------------------------------------------------ *)
\* the cells that call the embedding service or the language model, or
\* build the client that reads the key
UsesKey == { StoreCell, SearchCell, ChainCell, ChatCell }

\* C6: no cell that embeds or calls the language model starts in a state
\* where OPENAI_API_KEY has not been set by the prompt cell, and once set
\* the variable is never changed.
C6_KeySetBeforeUse ==
    [][ /\ pc \in UsesKey => KeySet /\ binder[ApiKey] = KeyCell
        /\ KeySet => environ' = environ ]_vars

C6_Witness ==
    /\ KeyCell \in Range(executed) /\ KeyValue = "sk-valid"
    /\ Completed(ChatCell) /\ result \in Answers

(* ------------------------------------------------------------------ *)
(* C7                                                                 *)
(* ------------------------------------------------------------------ *)
LoadHasRun == binder["documents"] = LoadCell /\ raised = 0

Sources(ds) == { ds[i].source : i \in DOMAIN ds }

\* one document per file of S, holding the file's text
HoldsExactly(S) ==
    /\ Sources(documents) = S
    /\ Len(documents) = Cardinality(S)
    /\ \A i \in DOMAIN documents : documents[i].page_content = fs[documents[i].source]

\* C7 as stated: the load yields the content of every file under
\* '../documents/', at any depth, whose name ends in .pdf, and of no other
\* file; with no such file the list is empty and both counts are 0.
C7_EveryPdfLoaded ==
    LoadHasRun =>
        /\ HoldsExactly({ f \in DOMAIN fs : f.root = "../documents/" /\ f.ext = "pdf" })
        /\ documents = <<>> => num_docs = 0 /\ num_chars = 0

\* C7 as amended: the load yields the content of every file under
\* '../documents/', at any depth, whose name ends in .pdf and whose path
\* below that directory has no component starting with a dot, and of no
\* other file; num_docs and num_chars are the number of those files and
\* the sum of their lengths, both 0 when there is none.
C7_EveryVisiblePdfLoaded ==
    LoadHasRun =>
        /\ HoldsExactly({ f \in DOMAIN fs :
                            /\ f.root = "../documents/" /\ f.ext = "pdf"
                            /\ ~f.name.dot /\ \A i \in DOMAIN f.dirs : ~f.dirs[i].dot })
        /\ num_docs = Len(documents)
        /\ num_chars = SumChars(documents)
        /\ documents = <<>> => num_docs = 0 /\ num_chars = 0

C7_Witness ==
    /\ LoadHasRun
    /\ Sources(documents) = { TopPdf, SubPdf }
    /\ Decoys \subseteq DOMAIN fs
    /\ num_chars > 1000

ConsecutivePieces(c) ==
    /\ \A k \in DOMAIN c.span :
          c.span[k] \in DOMAIN SourceText(c) /\ PLen(SourceText(c)[c.span[k]]) > 0
    /\ \A k \in 1..(Len(c.span) - 1) :
          /\ c.span[k] < c.span[k + 1]
          /\ \A j \in (c.span[k] + 1)..(c.span[k + 1] - 1) : PLen(SourceText(c)[j]) = 0

C9_HistoryAsBeforeTheTurn ==
    turns >= 1 =>
        /\ handed = before
        /\ raised = ChatCell => chat_history = before
        /\ raised = 0 => chat_history = Append(before, << Query, result >>)

(* ------------------------------------------------------------------ *)
(* C10                                                                *)
(* ------------------------------------------------------------------ *)
StoreBuiltByRun == binder["vectorstore"] = StoreCell

\* C10: the store is built from the output of the split, not from the
\* loaded documents: when Chroma.from_documents runs, `documents` is what
\* the split cell bound; the store holds one entry per chunk; a chat turn
\* retrieves at most 2 entries, each one of those chunks.
C10_StoreHoldsChunks ==
    /\ StoreBuiltByRun =>
          /\ SplitCell \in consumed[StoreCell] /\ LoadCell \notin consumed[StoreCell]
          /\ Len(vectorstore) = Len(documents)
          /\ \E order \in Orders(Loadable(DOMAIN fs)) :
                vectorstore = SplitDocuments(LoadedIn(order)).docs
    /\ Len(retrieved) <= 2
    /\ \A i \in DOMAIN retrieved : \E j \in DOMAIN vectorstore : retrieved[i] = vectorstore[j]

C10_Witness ==
    /\ StoreBuiltByRun /\ Completed(ChatCell)
    /\ Len(vectorstore) >= 3
    /\ Len(retrieved) = 2
    /\ \E i \in DOMAIN documents : Len(documents[i].span) >= 2

====
